---- MODULE Spec2Model ----
(***************************************************************************)
(* Model of element_array_ephys/readers/kilosort_trigger.py:               *)
(* SGLXKilosortTrigger, the CatGT runner, the stage sequencer run_modules  *)
(* and the JSON status ledger named by the hash of the module input.       *)
(*                                                                         *)
(* One recording (npx_input_dir) and one output directory (ks_output_dir)  *)
(* are modelled; the objects of Obj are SGLXKilosortTrigger objects built  *)
(* on them.  Python's None is the empty set and a present value v is {v}.  *)
(***************************************************************************)
EXTENDS Integers, Sequences, FiniteSets, TLC

(* ---------------------------------------------------------------- bounds *)

\* Number of SGLXKilosortTrigger objects alive at the same time.
NObj == 2
\* Number of distinct parameter mappings a caller passes as `params`.
NParams == 2
\* Largest value of the wall clock read by datetime.utcnow().
MaxClock == 10
\* Number of things the caller does around the calls: constructing a fresh
\* object, changing the parameter mapping, deleting a ledger file.
MaxEvents == 1

\* Largest number of files in npx_input_dir.
MaxFiles == 1
\* Largest value of the wall clock while sequencers run at the same time.
MaxRaceClock == 5
\* Largest start time in the records a caller hands to _update_module_status.
MaxRecordTime == 1
\* Largest number of stages one such update names.
MaxUpdate == 1

Obj == 1..NObj
ParamSets == 1..NParams

(* ------------------------------------------------------------ constants *)

None == {}
Some(v) == {v}
Val(opt) == CHOOSE v \in opt : TRUE

\* SGLXKilosortTrigger._modules
_modules ==
    << "kilosort_helper",
       "kilosort_postprocessing",
       "noise_templates",
       "mean_waveforms",
       "quality_metrics" >>

ModuleNames == { _modules[i] : i \in 1..Len(_modules) }

\* The module subprocess.check_call runs in run_CatGT.
CatGTHelper == "catGT_helper"

\* Exit codes of a subprocess: zero, and one standing for every non-zero code.
ExitCodes == {0, 1}

\* The unset ledger record of one stage.
UnsetStatus == [start_time |-> None, completion_time |-> None, duration |-> None]

(* ----------------------------------------------------------------- state *)

VARIABLES
    \* class attribute SGLXKilosortTrigger._default_catgt_params (one dict
    \* shared by every object): its 'ni_present' and 'ni_extract_string'
    default_catgt_params,
    \* json_configs/.<hash>.json: the ledger files that exist, by hash
    fs_ledger,
    \* json_configs/<session><probe>_CatGT-input.json: None while not written
    fs_catgt_json,
    \* wall clock read by datetime.utcnow()
    clock,
    \* per object: the attributes set by __init__
    _run_CatGT, _params, _CatGT_finished,
    _modules_input_hash, _modules_input_hash_fp,
    \* per object: position in the running call, the loop position of
    \* run_modules (index into _modules) and its local start_time
    pc, idx, start_time,
    \* observation: the subprocess modules check_call was given by the object's
    \* current (or, when idle, most recent) call, in order
    calls,
    \* observation: per object, whether a CatGT subprocess of it has exited
    \* with code zero, and the exit code of its most recent CatGT subprocess
    catgt_exit,
    \* observation: per hash, the stages whose subprocess exited zero in a run
    \* under that configuration since its ledger file was last deleted
    ok_stages,
    \* observation: per hash, "full" once a run_modules call under it has
    \* returned with all five stages having exited zero, "deleted" once the
    \* ledger file was deleted after that and until the next call under it
    \* returns or raises, "none" otherwise
    run_phase,
    \* observation: per hash, the loop position at which the most recent
    \* run_modules call under it raised, every earlier stage having exited
    \* zero under it (None otherwise, and when the call returned or the ledger
    \* file was deleted since)
    failed_at,
    \* observation: the call the caller made last, and on which object
    last,
    \* number of constructions, parameter changes and deletions so far
    env_events,
    \* the names of the files in npx_input_dir (each a sequence of characters)
    npx_input_dir,
    \* observation: the outcome of the latest parse_input_filename call
    parsed,
    \* per object: the local modules_status of a _update_module_status call
    \* that has loaded the ledger and not yet written it
    modules_status,
    \* observation: the stages whose subprocess has been running in two
    \* objects at the same time under one configuration hash
    overlap,
    \* observation: per object, the ni_present and ni_extract_string arguments
    \* its constructor was given
    ni_given

progvars == << default_catgt_params, fs_ledger, fs_catgt_json, clock,
               _run_CatGT, _params, _CatGT_finished,
               _modules_input_hash, _modules_input_hash_fp,
               pc, idx, start_time >>

vars == << default_catgt_params, fs_ledger, fs_catgt_json, clock,
           _run_CatGT, _params, _CatGT_finished,
           _modules_input_hash, _modules_input_hash_fp,
           pc, idx, start_time,
           calls, catgt_exit, ok_stages, run_phase, failed_at, last, env_events,
           npx_input_dir, parsed, modules_status, overlap, ni_given >>

\* The variables no call of the sequencer made by a single caller touches.
callvars == << npx_input_dir, parsed, modules_status, overlap >>

(* ------------------------------------------------------ pure operations *)

\* The value of _default_catgt_params['ni_extract_string'] in the class body.
DefaultNiExtractString == "-XA=0,1,3,500 -iXA=1,3,3,0  -XD=-1,1,50 -XD=-1,2,1.7 -XD=-1,3,5 -iXD=-1,3,5"
\* A caller's own extraction string.
CustomNiExtractString == "-XA=1,1,3,500"

\* File names and the strings cut from them are sequences of characters.
Digits == {"0", "1", "2", "3", "4", "5", "6", "7", "8", "9"}

SetMax(S) == CHOOSE x \in S : \A y \in S : y <= x

\* The character of s at position i, "" past its ends.
At(s, i) == IF i \in 1..Len(s) THEN s[i] ELSE ""

\* The literal lit stands in s at position i.
StartsAt(s, i, lit) == \A j \in 1..Len(lit) : At(s, i + j - 1) = lit[j]

EndsWith(s, lit) ==
    Len(s) >= Len(lit) /\ StartsAt(s, Len(s) - Len(lit) + 1, lit)

\* The literals of the pattern of parse_input_filename.
LitG == << "_", "g" >>
LitT == << "_", "t" >>
LitCat == << "c", "a", "t" >>
LitImec == << ".", "i", "m", "e", "c" >>
LitApMeta == << ".", "a", "p", ".", "m", "e", "t", "a" >>

\* self._npx_input_dir.glob('*.ap.meta'): the files the pattern selects.
GlobApMeta(dir) == { f \in dir : EndsWith(f, LitApMeta) }

\* The regular expression of line 73, matched as re.search matches it; each
\* operator gives the groups of the first match the backtracking finds at a
\* position, as a set that is empty when there is no match.
\* (\d?)\.ap\.meta at position q: the probe group.
MatchProbe(s, q) ==
    IF At(s, q) \in Digits /\ StartsAt(s, q + 1, LitApMeta)
    THEN { << s[q] >> }
    ELSE IF StartsAt(s, q, LitApMeta) THEN { << >> } ELSE {}

\* \.imec(\d?)\.ap\.meta at position q: the probe group.
MatchImec(s, q) ==
    IF StartsAt(s, q, LitImec) THEN MatchProbe(s, q + Len(LitImec)) ELSE {}

\* (\d+|cat)\.imec(\d?)\.ap\.meta at position p: the trigger and probe groups;
\* \d+ takes the longest run of digits after which the rest matches, and cat
\* is tried when no run of digits does.
MatchTrigger(s, p) ==
    LET lens == { n \in 1..Len(s) :
                    /\ \A j \in 0..(n - 1) : At(s, p + j) \in Digits
                    /\ MatchImec(s, p + n) # {} }
    IN  IF lens # {}
        THEN LET n == SetMax(lens)
             IN  { << SubSeq(s, p, p + n - 1), probe >> : probe \in MatchImec(s, p + n) }
        ELSE IF StartsAt(s, p, LitCat)
             THEN { << LitCat, probe >> : probe \in MatchImec(s, p + Len(LitCat)) }
             ELSE {}

\* _g(\d{1})_t(\d+|cat)\.imec(\d?)\.ap\.meta at position k: the gate, trigger
\* and probe groups.
MatchTail(s, k) ==
    IF /\ StartsAt(s, k, LitG)
       /\ At(s, k + 2) \in Digits
       /\ StartsAt(s, k + 3, LitT)
    THEN { << << s[k + 2] >>, g[1], g[2] >> : g \in MatchTrigger(s, k + 5) }
    ELSE {}

\* re.search(pattern, meta_filename): None, or the four groups of the match;
\* the greedy (.*) ends at the last position from which the rest matches.
ReSearch(s) ==
    LET ks == { k \in 1..Len(s) : MatchTail(s, k) # {} }
    IN  IF ks = {}
        THEN None
        ELSE LET k == SetMax(ks)
                 g == CHOOSE x \in MatchTail(s, k) : TRUE
             IN  Some(<< SubSeq(s, 1, k - 1), g[1], g[2], g[3] >>)

\* probe_str or '0', line 75.
ProbeAsIs(probe_str) == probe_str
ProbeOrZero(probe_str) == IF probe_str = << >> THEN << "0" >> ELSE probe_str

\* parse_input_filename on the file next() has taken from the glob: the tuple
\* returned, or the AttributeError of None.groups().
ParseName(meta_filename) ==
    LET match == ReSearch(meta_filename)
    IN  IF match = None
        THEN [raised |-> "AttributeError", file |-> meta_filename, value |-> << >>]
        ELSE LET groups == Val(match)
             IN  [ raised |-> "", file |-> meta_filename,
                   value |-> << groups[1], groups[2], groups[3],
                                ProbeOrZero(groups[4]) >> ]

\* The outcomes of parse_input_filename in a directory: next() raises
\* StopIteration on an empty glob, and takes any file of a glob of several.
ParseOutcomes(dir) ==
    IF GlobApMeta(dir) = {}
    THEN { [raised |-> "StopIteration", file |-> << >>, value |-> << >>] }
    ELSE { ParseName(f) : f \in GlobApMeta(dir) }

\* _get_raw_data_filepaths: the directory the meta and bin files are taken
\* from: CatGT's output folder once CatGT has finished, else npx_input_dir.
GetRawDataFilepaths(finished) ==
    IF finished THEN "catgt_output_dir" ELSE "npx_input_dir"

\* The dictionary createInputJson returns for generate_modules_input_json:
\* the caller's parameters (as ks_ parameters) and the input files.
ModulesInputParams(p, finished) ==
    [ks_params |-> p, continuous_file |-> GetRawDataFilepaths(finished)]

\* dict_to_uuid: one identifier per distinct dictionary.
dict_to_uuid(input_params) ==
    2 * input_params.ks_params
        - (IF input_params.continuous_file = "npx_input_dir" THEN 1 ELSE 0)

Hashes == { dict_to_uuid(ModulesInputParams(p, f)) : p \in ParamSets, f \in BOOLEAN }

\* The CatGT keys of the caller's parameter mappings: the even mappings hold
\* 'ni_present': True, the odd ones hold kilosort parameters only.
ParamsDict(params) ==
    IF params % 2 = 0 THEN [ni_present |-> TRUE] ELSE << >>

\* The configuration generate_CatGT_input_json hands to createInputJson:
\* lines 90-91 take each default from the caller's mapping when it holds the key.
CatGTInputParams(params, defaults, finished) ==
    LET catgt_params ==
            [k \in DOMAIN defaults |->
                IF k \in DOMAIN ParamsDict(params)
                THEN ParamsDict(params)[k] ELSE defaults[k]]
        ni_present == catgt_params.ni_present
        ni_extract_string == catgt_params.ni_extract_string
    IN  [ continuous_file |-> GetRawDataFilepaths(finished),
          catGT_stream_string |-> IF ni_present THEN "-ap -ni" ELSE "-ap",
          extract_string |-> IF ni_present THEN Some(ni_extract_string) ELSE None ]

\* run_CatGT, line 120: whether the call does anything.
RunCatGTBrokenGuard(o, force_rerun) == _run_CatGT[o]
RunCatGTGuard(o, force_rerun) ==
    _run_CatGT[o] /\ (~_CatGT_finished[o] \/ force_rerun)

\* run_modules, line 164: whether CatGT is run first.
NeedCatGTBroken(o) == FALSE
NeedCatGT(o) == _run_CatGT[o] /\ ~_CatGT_finished[o]

\* generate_CatGT_input_json, line 78: whether the call is skipped.
SkipCatGTInputJsonBroken(o) == FALSE
SkipCatGTInputJson(o) == ~_run_CatGT[o]

\* subprocess.check_call: raises CalledProcessError on a non-zero exit code.
CheckCallIgnoresCode(code) == FALSE
CheckCallRaises(code) == code # 0

\* run_modules, line 174: whether the stage is skipped.
IsCompleteBroken(module_status) == FALSE
IsComplete(module_status) == module_status.completion_time # None

\* {**modules_status, **updated_module_status}
DictMerge(d, u) ==
    [k \in DOMAIN d \cup DOMAIN u |-> IF k \in DOMAIN u THEN u[k] ELSE d[k]]

\* The filesystem after open(path, 'w') and json.dump(content).
WriteFile(fs, path, content) ==
    [x \in DOMAIN fs \cup {path} |-> IF x = path THEN content ELSE fs[x]]

\* The filesystem after the file at path is removed.
RemoveFile(fs, path) == [x \in DOMAIN fs \ {path} |-> fs[x]]

\* _update_module_status, line 226: whether the call raises RuntimeError
\* ('"generate_modules_input_json()" not yet performed!').
HashCheckDropped(hash) == FALSE
NotYetPerformed(hash) == hash = None

\* The ledger file of a hash, json_configs/.<hash>.json; path 0 is the file
\* .None.json that the format string of line 229 names for the hash None.
LedgerPath(hash) == IF hash = None THEN 0 ELSE Val(hash)

\* _update_module_status, lines 230-238: the local modules_status, which is
\* the file's content with the update merged in when the file exists, and
\* every stage unset (the update left out) when it does not.
LoadModulesStatus(fs, hash, updated_module_status) ==
    IF hash \in DOMAIN fs
    THEN DictMerge(fs[hash], updated_module_status)
    ELSE [module \in ModuleNames |-> UnsetStatus]

\* _update_module_status, lines 229-240, for an object whose hash is set:
\* the ledger files afterwards (the ledger path becomes the hash's path).
UpdateModuleStatus(fs, hash, updated_module_status) ==
    WriteFile(fs, hash, LoadModulesStatus(fs, hash, updated_module_status))

\* _get_module_status, lines 246-251: the record read at the ledger path fp.
ReadModuleStatus(fs, fp, module) ==
    IF fp \in DOMAIN fs THEN fs[fp][module] ELSE UnsetStatus

\* The ledger files after _get_module_status (line 243-244 creates or rewrites
\* the ledger file when the object has no ledger path yet).
FsAfterGetModuleStatus(fs, fp, hash) ==
    IF fp = None THEN UpdateModuleStatus(fs, LedgerPath(hash), << >>) ELSE fs

\* The ledger path after _get_module_status.
FpAfterGetModuleStatus(fp, hash) ==
    IF fp = None THEN Some(LedgerPath(hash)) ELSE fp

(* ------------------------------------------------------------- actions *)

Call(op, o, acted) == [op |-> op, obj |-> o, acted |-> acted]

\* One more construction, parameter change or deletion.
EnvEvent == env_events < MaxEvents /\ env_events' = env_events + 1

\* The caller is single-threaded: no call of any object is in progress.
Quiet == \A o \in Obj : pc[o] \in {"idle", "unconstructed"}

\* The hash generate_modules_input_json stores, line 161.
ModulesInputHash(o, finished) ==
    Some(dict_to_uuid(ModulesInputParams(_params[o], finished)))

\* __init__(npx_input_dir, ks_output_dir, params, KS2ver, run_CatGT,
\* ni_present, ni_extract_string): a fresh object takes the place of o.
Construct(o, params, run_CatGT, ni_present, ni_extract_string) ==
    /\ pc[o] \in {"idle", "unconstructed"}
    /\ pc' = [pc EXCEPT ![o] = "idle"]
    /\ _params' = [_params EXCEPT ![o] = params]
    /\ _run_CatGT' = [_run_CatGT EXCEPT ![o] = run_CatGT]
    /\ default_catgt_params' =
         [ ni_present |-> ni_present,
           ni_extract_string |->
               IF ni_extract_string # None
               THEN Val(ni_extract_string)
               ELSE default_catgt_params.ni_extract_string ]
    /\ _CatGT_finished' = [_CatGT_finished EXCEPT ![o] = FALSE]
    /\ _modules_input_hash' = [_modules_input_hash EXCEPT ![o] = None]
    /\ _modules_input_hash_fp' = [_modules_input_hash_fp EXCEPT ![o] = None]
    /\ idx' = [idx EXCEPT ![o] = 1]
    /\ start_time' = [start_time EXCEPT ![o] = None]
    /\ calls' = [calls EXCEPT ![o] = << >>]
    /\ catgt_exit' = [catgt_exit EXCEPT ![o] = [zero |-> FALSE, latest |-> None]]
    /\ ni_given' = [ni_given EXCEPT ![o] =
                       [ni_present |-> ni_present, ni_extract_string |-> ni_extract_string]]
    /\ last' = Call("__init__", o, TRUE)
    /\ EnvEvent
    /\ UNCHANGED callvars
    /\ UNCHANGED << fs_ledger, fs_catgt_json, clock,
                    ok_stages, run_phase, failed_at >>

\* The caller changes the mapping it passed as params (__init__ keeps a
\* reference to it, line 57) between two calls.
ChangeParams(o, params) ==
    /\ UNCHANGED << callvars, ni_given >>
    /\ pc[o] = "idle"
    /\ params # _params[o]
    /\ _params' = [_params EXCEPT ![o] = params]
    /\ last' = Call("params", o, TRUE)
    /\ EnvEvent
    /\ UNCHANGED << default_catgt_params, fs_ledger, fs_catgt_json, clock,
                    _run_CatGT, _CatGT_finished, _modules_input_hash,
                    _modules_input_hash_fp, pc, idx, start_time,
                    calls, catgt_exit, ok_stages, run_phase, failed_at >>

\* The ledger file of one hash is deleted from json_configs.
DeleteLedger(h) ==
    /\ UNCHANGED << callvars, ni_given >>
    /\ h \in DOMAIN fs_ledger
    /\ fs_ledger' = RemoveFile(fs_ledger, h)
    /\ ok_stages' = [ok_stages EXCEPT ![h] = {}]
    /\ run_phase' = [run_phase EXCEPT ![h] =
                        IF @ = "full" THEN "deleted" ELSE "none"]
    /\ failed_at' = [failed_at EXCEPT ![h] = None]
    /\ last' = Call("unlink", 0, TRUE)
    /\ EnvEvent
    /\ UNCHANGED << default_catgt_params, fs_catgt_json, clock,
                    _run_CatGT, _params, _CatGT_finished, _modules_input_hash,
                    _modules_input_hash_fp, pc, idx, start_time,
                    calls, catgt_exit >>

\* The records of a stage that has run, as a caller may hand them to
\* _update_module_status, and the updates of at most MaxUpdate stages.
StatusRecords ==
    { [ start_time |-> Some(t), completion_time |-> Some(t + 1), duration |-> Some(1) ] :
        t \in 0..MaxRecordTime }

Updates ==
    UNION { [D -> StatusRecords] :
              D \in { D \in SUBSET ModuleNames : Cardinality(D) <= MaxUpdate } }

\* _get_module_status(module), called by the caller.
_get_module_status(o, module) ==
    /\ pc[o] = "idle"
    /\ calls' = [calls EXCEPT ![o] = << >>]
    /\ IF _modules_input_hash_fp[o] = None /\ NotYetPerformed(_modules_input_hash[o])
       THEN /\ last' = Call("_get_module_status", o, FALSE)
            /\ UNCHANGED << fs_ledger, _modules_input_hash_fp >>
       ELSE /\ last' = Call("_get_module_status", o, TRUE)
            /\ fs_ledger' = FsAfterGetModuleStatus(fs_ledger, _modules_input_hash_fp[o],
                                                   _modules_input_hash[o])
            /\ _modules_input_hash_fp' =
                   [_modules_input_hash_fp EXCEPT ![o] =
                        FpAfterGetModuleStatus(@, _modules_input_hash[o])]
    /\ UNCHANGED << default_catgt_params, fs_catgt_json, clock,
                    _run_CatGT, _params, _CatGT_finished, _modules_input_hash,
                    pc, idx, start_time,
                    catgt_exit, ok_stages, run_phase, failed_at, env_events,
                    callvars, ni_given >>

\* _update_module_status(updated_module_status), called by the caller.
_update_module_status(o, updated_module_status) ==
    /\ pc[o] = "idle"
    /\ calls' = [calls EXCEPT ![o] = << >>]
    /\ IF NotYetPerformed(_modules_input_hash[o])
       THEN /\ last' = Call("_update_module_status", o, FALSE)
            /\ UNCHANGED << fs_ledger, _modules_input_hash_fp >>
       ELSE /\ last' = Call("_update_module_status", o, TRUE)
            /\ fs_ledger' = UpdateModuleStatus(fs_ledger, LedgerPath(_modules_input_hash[o]),
                                               updated_module_status)
            /\ _modules_input_hash_fp' =
                   [_modules_input_hash_fp EXCEPT ![o] =
                        Some(LedgerPath(_modules_input_hash[o]))]
    /\ UNCHANGED << default_catgt_params, fs_catgt_json, clock,
                    _run_CatGT, _params, _CatGT_finished, _modules_input_hash,
                    pc, idx, start_time,
                    catgt_exit, ok_stages, run_phase, failed_at, env_events,
                    callvars, ni_given >>

\* parse_input_filename(), called by the caller.
ParseInputFilename(o) ==
    /\ pc[o] = "idle"
    /\ \E outcome \in ParseOutcomes(npx_input_dir) : parsed' = Some(outcome)
    /\ calls' = [calls EXCEPT ![o] = << >>]
    /\ last' = Call("parse_input_filename", o, TRUE)
    /\ UNCHANGED << progvars, catgt_exit, ok_stages, run_phase, failed_at,
                    env_events, npx_input_dir, modules_status, overlap, ni_given >>

\* generate_CatGT_input_json(), called by the caller.
GenerateCatGTInputJson(o) ==
    /\ UNCHANGED << callvars, ni_given >>
    /\ pc[o] = "idle"
    /\ IF SkipCatGTInputJson(o)
       THEN UNCHANGED fs_catgt_json
       ELSE fs_catgt_json' =
                Some(CatGTInputParams(_params[o], default_catgt_params,
                                      _CatGT_finished[o]))
    /\ calls' = [calls EXCEPT ![o] = << >>]
    /\ last' = Call("generate_CatGT_input_json", o, ~SkipCatGTInputJson(o))
    /\ UNCHANGED env_events
    /\ UNCHANGED << default_catgt_params, fs_ledger, clock,
                    _run_CatGT, _params, _CatGT_finished, _modules_input_hash,
                    _modules_input_hash_fp, pc, idx, start_time,
                    catgt_exit, ok_stages, run_phase, failed_at >>

\* generate_modules_input_json(), called by the caller.
GenerateModulesInputJson(o) ==
    /\ UNCHANGED << callvars, ni_given >>
    /\ pc[o] = "idle"
    /\ _modules_input_hash' =
         [_modules_input_hash EXCEPT ![o] = ModulesInputHash(o, _CatGT_finished[o])]
    /\ calls' = [calls EXCEPT ![o] = << >>]
    /\ last' = Call("generate_modules_input_json", o, TRUE)
    /\ UNCHANGED env_events
    /\ UNCHANGED << default_catgt_params, fs_ledger, fs_catgt_json, clock,
                    _run_CatGT, _params, _CatGT_finished,
                    _modules_input_hash_fp, pc, idx, start_time,
                    catgt_exit, ok_stages, run_phase, failed_at >>

\* run_CatGT lines 121-131: the input json is written and the CatGT
\* subprocess is started; the call waits in check_call at position at.
StartCatGT(o, at) ==
    /\ IF SkipCatGTInputJson(o)
       THEN UNCHANGED fs_catgt_json
       ELSE fs_catgt_json' =
                Some(CatGTInputParams(_params[o], default_catgt_params,
                                      _CatGT_finished[o]))
    /\ calls' = [calls EXCEPT ![o] = << CatGTHelper >>]
    /\ pc' = [pc EXCEPT ![o] = at]

\* run_modules lines 167-170: the module input json is built and hashed and
\* the loop over _modules starts.
StartModules(o, finished) ==
    /\ _modules_input_hash' =
         [_modules_input_hash EXCEPT ![o] = ModulesInputHash(o, finished)]
    /\ idx' = [idx EXCEPT ![o] = 1]
    /\ pc' = [pc EXCEPT ![o] = "run_modules:loop"]

\* run_CatGT(force_rerun), called by the caller.
RunCatGT(o, force_rerun) ==
    /\ UNCHANGED << callvars, ni_given >>
    /\ pc[o] = "idle"
    /\ last' = Call(IF force_rerun THEN "run_CatGT(force_rerun)" ELSE "run_CatGT", o,
                     RunCatGTGuard(o, force_rerun))
    /\ UNCHANGED env_events
    /\ IF RunCatGTGuard(o, force_rerun)
       THEN StartCatGT(o, "run_CatGT:check_call")
       ELSE /\ calls' = [calls EXCEPT ![o] = << >>]
            /\ UNCHANGED << fs_catgt_json, pc >>
    /\ UNCHANGED << default_catgt_params, fs_ledger, clock,
                    _run_CatGT, _params, _CatGT_finished, _modules_input_hash,
                    _modules_input_hash_fp, idx, start_time,
                    catgt_exit, ok_stages, run_phase, failed_at >>

\* run_modules(), up to its first subprocess or the head of its loop.
RunModules(o) ==
    /\ UNCHANGED << callvars, ni_given >>
    /\ pc[o] = "idle"
    /\ last' = Call("run_modules", o, TRUE)
    /\ UNCHANGED env_events
    /\ IF NeedCatGT(o) /\ RunCatGTGuard(o, FALSE)
       THEN /\ StartCatGT(o, "run_modules:run_CatGT")
            /\ UNCHANGED << _modules_input_hash, idx >>
       ELSE /\ StartModules(o, _CatGT_finished[o])
            /\ calls' = [calls EXCEPT ![o] = << >>]
            /\ UNCHANGED fs_catgt_json
    /\ UNCHANGED << default_catgt_params, fs_ledger, clock,
                    _run_CatGT, _params, _CatGT_finished,
                    _modules_input_hash_fp, start_time,
                    catgt_exit, ok_stages, run_phase, failed_at >>

\* The call of object o ends (it returns or raises): its locals are gone.
EndCall(o) ==
    /\ pc' = [pc EXCEPT ![o] = "idle"]
    /\ idx' = [idx EXCEPT ![o] = 1]
    /\ start_time' = [start_time EXCEPT ![o] = None]
    /\ calls' = [calls EXCEPT ![o] = << >>]

\* The CatGT subprocess exits: check_call returns or raises (line 131), the
\* flag is set (line 133) and, inside run_modules, the loop is entered.
CatGTExit(o, code) ==
    /\ UNCHANGED << callvars, ni_given >>
    /\ pc[o] \in {"run_CatGT:check_call", "run_modules:run_CatGT"}
    /\ catgt_exit' = [catgt_exit EXCEPT ![o] =
                        [zero |-> @.zero \/ code = 0, latest |-> Some(code)]]
    /\ IF CheckCallRaises(code)
       THEN /\ EndCall(o)
            /\ UNCHANGED << _CatGT_finished, _modules_input_hash >>
       ELSE /\ _CatGT_finished' = [_CatGT_finished EXCEPT ![o] = TRUE]
            /\ IF pc[o] = "run_modules:run_CatGT"
               THEN /\ StartModules(o, TRUE)
                    /\ UNCHANGED << start_time, calls >>
               ELSE /\ EndCall(o)
                    /\ UNCHANGED _modules_input_hash
    /\ UNCHANGED << default_catgt_params, fs_ledger, fs_catgt_json, clock,
                    _run_CatGT, _params, _modules_input_hash_fp,
                    ok_stages, run_phase, failed_at, last, env_events >>

\* run_modules lines 172-186, one pass of the loop head: the loop ends and the
\* call returns, or the stage's ledger record is read (_get_module_status) and
\* the stage is skipped, or its subprocess is started.
StageCheck(o) ==
    /\ UNCHANGED << callvars, ni_given >>
    /\ pc[o] = "run_modules:loop"
    /\ IF idx[o] > Len(_modules)
       THEN LET h == Val(_modules_input_hash[o])
            IN  /\ EndCall(o)
                /\ run_phase' = [run_phase EXCEPT ![h] =
                        IF ok_stages[h] = ModuleNames THEN "full" ELSE "none"]
                /\ failed_at' = [failed_at EXCEPT ![h] = None]
                /\ UNCHANGED << fs_ledger, _modules_input_hash_fp >>
       ELSE LET module == _modules[idx[o]]
                fs == FsAfterGetModuleStatus(fs_ledger, _modules_input_hash_fp[o],
                                             _modules_input_hash[o])
                fp == FpAfterGetModuleStatus(_modules_input_hash_fp[o],
                                             _modules_input_hash[o])
                module_status == ReadModuleStatus(fs, Val(fp), module)
            IN  /\ fs_ledger' = fs
                /\ _modules_input_hash_fp' = [_modules_input_hash_fp EXCEPT ![o] = fp]
                /\ IF IsComplete(module_status)
                   THEN /\ idx' = [idx EXCEPT ![o] = @ + 1]
                        /\ UNCHANGED << pc, start_time, calls >>
                   ELSE /\ start_time' = [start_time EXCEPT ![o] = Some(clock)]
                        /\ calls' = [calls EXCEPT ![o] = Append(@, module)]
                        /\ pc' = [pc EXCEPT ![o] = "run_modules:check_call"]
                        /\ UNCHANGED idx
                /\ UNCHANGED << run_phase, failed_at >>
    /\ UNCHANGED << default_catgt_params, fs_catgt_json, clock,
                    _run_CatGT, _params, _CatGT_finished, _modules_input_hash,
                    catgt_exit, ok_stages, last, env_events >>

\* run_modules lines 186-191: the stage's subprocess exits; check_call raises
\* on a non-zero code, else the completion time is taken and the ledger is
\* updated (_update_module_status).
StageExit(o, code) ==
    /\ UNCHANGED << callvars, ni_given >>
    /\ pc[o] = "run_modules:check_call"
    /\ LET module == _modules[idx[o]]
           h == Val(_modules_input_hash[o])
       IN  IF CheckCallRaises(code)
           THEN /\ EndCall(o)
                /\ failed_at' = [failed_at EXCEPT ![h] =
                        IF \A i \in 1..(idx[o] - 1) : _modules[i] \in ok_stages[h]
                        THEN Some(idx[o]) ELSE None]
                /\ run_phase' = [run_phase EXCEPT ![h] =
                        IF @ = "deleted" THEN "none" ELSE @]
                /\ UNCHANGED << fs_ledger, clock, _modules_input_hash_fp,
                                ok_stages >>
           ELSE /\ clock < MaxClock
                /\ clock' = clock + 1
                /\ LET completion_time == clock + 1
                       record == [ start_time |-> start_time[o],
                                   completion_time |-> Some(completion_time),
                                   duration |-> Some(completion_time - Val(start_time[o])) ]
                   IN  fs_ledger' = UpdateModuleStatus(fs_ledger, h,
                                        [m \in {module} |-> record])
                /\ _modules_input_hash_fp' =
                       [_modules_input_hash_fp EXCEPT ![o] = _modules_input_hash[o]]
                /\ idx' = [idx EXCEPT ![o] = @ + 1]
                /\ pc' = [pc EXCEPT ![o] = "run_modules:loop"]
                /\ start_time' = [start_time EXCEPT ![o] = None]
                /\ ok_stages' = [ok_stages EXCEPT ![h] =
                                    IF code = 0 THEN @ \cup {module} ELSE @]
                /\ UNCHANGED << calls, failed_at, run_phase >>
    /\ UNCHANGED << default_catgt_params, fs_catgt_json,
                    _run_CatGT, _params, _CatGT_finished, _modules_input_hash,
                    catgt_exit, last, env_events >>

(* ------------- run_modules, one access to the ledger file per step *)

\* Another object's subprocess of the same stage is running under the same
\* configuration hash.
RunningElsewhere(o) ==
    \E other \in Obj \ {o} :
        /\ pc[other] = "run_modules:check_call"
        /\ idx[other] = idx[o]
        /\ _modules_input_hash[other] = _modules_input_hash[o]

\* run_modules line 172 and _get_module_status lines 243-244, with lines
\* 229-238 of _update_module_status(): the loop ends and the call returns, or
\* an object without ledger path sets it and loads the ledger file, or an
\* object with one goes on to read the file.
RunModulesLoop(o) ==
    /\ pc[o] = "run_modules:loop"
    /\ IF idx[o] > Len(_modules)
       THEN LET h == Val(_modules_input_hash[o])
            IN  /\ EndCall(o)
                /\ run_phase' = [run_phase EXCEPT ![h] =
                        IF ok_stages[h] = ModuleNames THEN "full" ELSE "none"]
                /\ failed_at' = [failed_at EXCEPT ![h] = None]
                /\ UNCHANGED << _modules_input_hash_fp, modules_status >>
       ELSE IF _modules_input_hash_fp[o] = None
       THEN /\ _modules_input_hash_fp' =
                   [_modules_input_hash_fp EXCEPT ![o] =
                        Some(LedgerPath(_modules_input_hash[o]))]
            /\ modules_status' =
                   [modules_status EXCEPT ![o] =
                        Some(LoadModulesStatus(fs_ledger,
                                               LedgerPath(_modules_input_hash[o]), << >>))]
            /\ pc' = [pc EXCEPT ![o] = "_get_module_status:dump"]
            /\ UNCHANGED << idx, start_time, calls, run_phase, failed_at >>
       ELSE /\ pc' = [pc EXCEPT ![o] = "_get_module_status:read"]
            /\ UNCHANGED << _modules_input_hash_fp, modules_status,
                            idx, start_time, calls, run_phase, failed_at >>
    /\ UNCHANGED << default_catgt_params, fs_ledger, fs_catgt_json, clock,
                    _run_CatGT, _params, _CatGT_finished, _modules_input_hash,
                    catgt_exit, ok_stages, last, env_events,
                    npx_input_dir, parsed, overlap, ni_given >>

\* _update_module_status lines 239-240, called by _get_module_status: the
\* loaded modules_status is written to the ledger file.
GetModuleStatusDump(o) ==
    /\ pc[o] = "_get_module_status:dump"
    /\ fs_ledger' = WriteFile(fs_ledger, Val(_modules_input_hash_fp[o]),
                              Val(modules_status[o]))
    /\ modules_status' = [modules_status EXCEPT ![o] = None]
    /\ pc' = [pc EXCEPT ![o] = "_get_module_status:read"]
    /\ UNCHANGED << default_catgt_params, fs_catgt_json, clock,
                    _run_CatGT, _params, _CatGT_finished, _modules_input_hash,
                    _modules_input_hash_fp, idx, start_time,
                    calls, catgt_exit, ok_stages, run_phase, failed_at, last,
                    env_events, npx_input_dir, parsed, overlap, ni_given >>

\* _get_module_status lines 246-251 and run_modules lines 174-186: the stage's
\* record is read from the ledger file and the stage is skipped, or its
\* subprocess is started.
GetModuleStatusRead(o) ==
    /\ pc[o] = "_get_module_status:read"
    /\ LET module == _modules[idx[o]]
           module_status ==
               ReadModuleStatus(fs_ledger, Val(_modules_input_hash_fp[o]), module)
       IN  IF IsComplete(module_status)
           THEN /\ idx' = [idx EXCEPT ![o] = @ + 1]
                /\ pc' = [pc EXCEPT ![o] = "run_modules:loop"]
                /\ UNCHANGED << start_time, calls, overlap >>
           ELSE /\ start_time' = [start_time EXCEPT ![o] = Some(clock)]
                /\ calls' = [calls EXCEPT ![o] = Append(@, module)]
                /\ pc' = [pc EXCEPT ![o] = "run_modules:check_call"]
                /\ overlap' = IF RunningElsewhere(o)
                              THEN overlap \cup {module} ELSE overlap
                /\ UNCHANGED idx
    /\ UNCHANGED << default_catgt_params, fs_ledger, fs_catgt_json, clock,
                    _run_CatGT, _params, _CatGT_finished, _modules_input_hash,
                    _modules_input_hash_fp,
                    catgt_exit, ok_stages, run_phase, failed_at, last,
                    env_events, npx_input_dir, parsed, modules_status, ni_given >>

\* run_modules lines 186-191 and _update_module_status lines 229-238: the
\* stage's subprocess exits; check_call raises on a non-zero code, else the
\* completion time is taken, the ledger path is set and the ledger file is
\* loaded and the stage's record merged in.
CheckCallExit(o, code) ==
    /\ pc[o] = "run_modules:check_call"
    /\ LET module == _modules[idx[o]]
           h == Val(_modules_input_hash[o])
       IN  IF CheckCallRaises(code)
           THEN /\ EndCall(o)
                /\ failed_at' = [failed_at EXCEPT ![h] =
                        IF \A i \in 1..(idx[o] - 1) : _modules[i] \in ok_stages[h]
                        THEN Some(idx[o]) ELSE None]
                /\ run_phase' = [run_phase EXCEPT ![h] =
                        IF @ = "deleted" THEN "none" ELSE @]
                /\ UNCHANGED << clock, _modules_input_hash_fp, modules_status,
                                ok_stages >>
           ELSE /\ clock < MaxRaceClock
                /\ clock' = clock + 1
                /\ LET completion_time == clock + 1
                       record == [ start_time |-> start_time[o],
                                   completion_time |-> Some(completion_time),
                                   duration |-> Some(completion_time - Val(start_time[o])) ]
                   IN  modules_status' =
                           [modules_status EXCEPT ![o] =
                                Some(LoadModulesStatus(fs_ledger, h,
                                                       [m \in {module} |-> record]))]
                /\ _modules_input_hash_fp' =
                       [_modules_input_hash_fp EXCEPT ![o] = _modules_input_hash[o]]
                /\ pc' = [pc EXCEPT ![o] = "_update_module_status:dump"]
                /\ ok_stages' = [ok_stages EXCEPT ![h] =
                                    IF code = 0 THEN @ \cup {module} ELSE @]
                /\ UNCHANGED << idx, start_time, calls, failed_at, run_phase >>
    /\ UNCHANGED << default_catgt_params, fs_ledger, fs_catgt_json,
                    _run_CatGT, _params, _CatGT_finished, _modules_input_hash,
                    catgt_exit, last, env_events,
                    npx_input_dir, parsed, overlap, ni_given >>

\* _update_module_status lines 239-240, called by run_modules: the merged
\* modules_status is written to the ledger file and the loop goes on.
UpdateModuleStatusDump(o) ==
    /\ pc[o] = "_update_module_status:dump"
    /\ fs_ledger' = WriteFile(fs_ledger, Val(_modules_input_hash_fp[o]),
                              Val(modules_status[o]))
    /\ modules_status' = [modules_status EXCEPT ![o] = None]
    /\ idx' = [idx EXCEPT ![o] = @ + 1]
    /\ start_time' = [start_time EXCEPT ![o] = None]
    /\ pc' = [pc EXCEPT ![o] = "run_modules:loop"]
    /\ UNCHANGED << default_catgt_params, fs_catgt_json, clock,
                    _run_CatGT, _params, _CatGT_finished, _modules_input_hash,
                    _modules_input_hash_fp,
                    calls, catgt_exit, ok_stages, run_phase, failed_at, last,
                    env_events, npx_input_dir, parsed, overlap, ni_given >>

(* ------------------------------------------------------- specification *)

\* The parts file names in npx_input_dir are put together from.
SessionStrs == { << "r", "u", "n", "1" >>, << "a", "_", "g", "1", "_", "t", "2" >> }
GateStrs == { << "0" >>, << "1", "2" >>, << >> }
TriggerStrs == { << "0" >>, << "1", "2" >>, LitCat, << "x" >> }
ProbeStrs == { << >>, << "1" >>, << "1", "0" >> }
Extensions == { LitApMeta, << ".", "l", "f", ".", "m", "e", "t", "a" >> }

\* <session>_g<gate>_t<trigger>.imec<probe><extension>
MetaName(session, gate, trigger, probe, extension) ==
    session \o LitG \o gate \o LitT \o trigger \o LitImec \o probe \o extension

Run1Meta == MetaName(<< "r", "u", "n", "1" >>, << "0" >>, << "0" >>, << "1" >>, LitApMeta)

FileNames ==
    { MetaName(s, g, t, p, e) : s \in SessionStrs, g \in GateStrs,
                                 t \in TriggerStrs, p \in ProbeStrs, e \in Extensions }
      \cup { << "n", "o", "t", "e", "s" >> \o LitApMeta }

\* The directories of at most n files.
RECURSIVE DirsUpTo(_)
DirsUpTo(n) ==
    IF n = 0
    THEN { {} }
    ELSE LET smaller == DirsUpTo(n - 1)
         IN  smaller \cup { d \cup {f} : d \in smaller, f \in FileNames }

\* Object 1 has been constructed on the first parameter mapping, with
\* ni_present and ni_extract_string left at their defaults, and the other
\* objects not yet; nothing has run and json_configs is empty.
InitObjects(constructed) ==
    /\ default_catgt_params =
         [ni_present |-> FALSE, ni_extract_string |-> DefaultNiExtractString]
    /\ fs_ledger = << >>
    /\ fs_catgt_json = None
    /\ clock = 0
    /\ \E rc \in BOOLEAN : _run_CatGT = [o \in Obj |-> IF o = 1 THEN rc ELSE FALSE]
    /\ _params = [o \in Obj |-> 1]
    /\ _CatGT_finished = [o \in Obj |-> FALSE]
    /\ _modules_input_hash = [o \in Obj |-> None]
    /\ _modules_input_hash_fp = [o \in Obj |-> None]
    /\ pc = [o \in Obj |-> IF o \in constructed THEN "idle" ELSE "unconstructed"]
    /\ idx = [o \in Obj |-> 1]
    /\ start_time = [o \in Obj |-> None]
    /\ calls = [o \in Obj |-> << >>]
    /\ catgt_exit = [o \in Obj |-> [zero |-> FALSE, latest |-> None]]
    /\ ok_stages = [h \in Hashes |-> {}]
    /\ run_phase = [h \in Hashes |-> "none"]
    /\ failed_at = [h \in Hashes |-> None]
    /\ last = Call("__init__", 1, TRUE)
    /\ env_events = 0
    /\ modules_status = [o \in Obj |-> None]
    /\ overlap = {}
    /\ ni_given = [o \in Obj |-> [ni_present |-> FALSE, ni_extract_string |-> None]]

InitSequencer == InitObjects({1})

\* npx_input_dir holds the meta file of one recording, run1_g0_t0.imec1.ap.meta.
Init ==
    /\ InitSequencer
    /\ npx_input_dir = { Run1Meta }
    /\ parsed = None

\* The calls of one single-threaded caller: a call starts only when no other
\* call is in progress.
Next ==
    \/ \E o \in Obj, p \in ParamSets, rc \in BOOLEAN :
            Quiet /\ Construct(o, p, rc, FALSE, None)
    \/ \E o \in Obj, p \in ParamSets : Quiet /\ ChangeParams(o, p)
    \/ \E h \in Hashes : Quiet /\ DeleteLedger(h)
    \/ \E o \in Obj : Quiet /\ GenerateCatGTInputJson(o)
    \/ \E o \in Obj : Quiet /\ GenerateModulesInputJson(o)
    \/ \E o \in Obj, force_rerun \in BOOLEAN : Quiet /\ RunCatGT(o, force_rerun)
    \/ \E o \in Obj : Quiet /\ RunModules(o)
    \/ \E o \in Obj, code \in ExitCodes : CatGTExit(o, code)
    \/ \E o \in Obj : StageCheck(o)
    \/ \E o \in Obj, code \in ExitCodes : StageExit(o, code)

Spec == Init /\ [][Next]_vars

\* parse_input_filename on every directory of at most MaxFiles files.
InitParse ==
    /\ InitSequencer
    /\ npx_input_dir \in DirsUpTo(MaxFiles)
    /\ parsed = None

NextParse == \E o \in Obj : ParseInputFilename(o)

SpecParse == InitParse /\ [][NextParse]_vars

\* The ledger methods called directly by one single-threaded caller, between
\* constructions of objects on the parameter mapping of the first one,
\* generate_modules_input_json calls and deletions of ledger files.
NextLedger ==
    \/ \E o \in Obj, rc \in BOOLEAN : Construct(o, _params[1], rc, FALSE, None)
    \/ \E h \in Hashes : DeleteLedger(h)
    \/ \E o \in Obj : GenerateModulesInputJson(o)
    \/ \E o \in Obj, module \in ModuleNames : _get_module_status(o, module)
    \/ \E o \in Obj, u \in Updates : _update_module_status(o, u)

SpecLedger == Init /\ [][NextLedger]_vars

\* Objects constructed with every choice of ni_present and ni_extract_string,
\* and the calls that write the CatGT input configuration and run CatGT.
NextCatGT ==
    \/ \E o \in Obj, p \in ParamSets, rc, ni_present \in BOOLEAN,
           ni_extract_string \in {None, Some(CustomNiExtractString)} :
            Quiet /\ Construct(o, p, rc, ni_present, ni_extract_string)
    \/ \E o \in Obj : Quiet /\ GenerateCatGTInputJson(o)
    \/ \E o \in Obj, force_rerun \in BOOLEAN : Quiet /\ RunCatGT(o, force_rerun)
    \/ \E o \in Obj, code \in ExitCodes : CatGTExit(o, code)

SpecCatGT == Init /\ [][NextCatGT]_vars

\* Every object has been constructed, on the same recording, output
\* directory and parameter mapping.
InitConcurrent ==
    /\ InitObjects(Obj)
    /\ npx_input_dir = { Run1Meta }
    /\ parsed = None

\* Sequencers that run at the same time, each in a process of its own: a
\* run_modules call starts whatever the other objects are doing, and the steps
\* of the calls, one access to the ledger file each, interleave.
NextConcurrent ==
    \/ \E o \in Obj : RunModules(o)
    \/ \E o \in Obj, code \in ExitCodes : CatGTExit(o, code)
    \/ \E o \in Obj : RunModulesLoop(o)
    \/ \E o \in Obj : GetModuleStatusDump(o)
    \/ \E o \in Obj : GetModuleStatusRead(o)
    \/ \E o \in Obj, code \in ExitCodes : CheckCallExit(o, code)
    \/ \E o \in Obj : UpdateModuleStatusDump(o)

SpecConcurrent == InitConcurrent /\ [][NextConcurrent]_vars

(* -------------------------------------------------------------- claims *)

\* The fixed stage order the specification states.
StageOrder ==
    << "kilosort_helper", "kilosort_postprocessing", "noise_templates",
       "mean_waveforms", "quality_metrics" >>

\* Position of a stage in the stated order.
StagePos(module) == CHOOSE i \in 1..Len(StageOrder) : StageOrder[i] = module

\* Object o is inside run_modules, past the CatGT step.
InModules(o) == pc[o] \in {"run_modules:loop", "run_modules:check_call"}

\* The stage subprocesses the call in progress of o has invoked, in order.
StageCalls(o) == SelectSeq(calls[o], LAMBDA m : m # CatGTHelper)

\* The hash of the configuration the call in progress of o runs under.
CallHash(o) == Val(_modules_input_hash[o])

\* Stage module is recorded complete in the ledger file of hash h.
RecordedComplete(h, module) ==
    /\ h \in DOMAIN fs_ledger
    /\ fs_ledger[h][module].completion_time # None

\* The record read for a stage at ledger path fp among the ledger files fs.
RecordAt(fs, fp, module) ==
    IF fp = None THEN UnsetStatus ELSE ReadModuleStatus(fs, Val(fp), module)

\* The record an object reads for a stage at its ledger path.
RecordRead(o, module) == RecordAt(fs_ledger, _modules_input_hash_fp[o], module)

\* C1: in one run_modules call the stages are invoked in the fixed order
\* kilosort_helper, kilosort_postprocessing, noise_templates, mean_waveforms,
\* quality_metrics, each at most once, and a stage whose subprocess is running
\* is one whose ledger record, as the object reads it, has no completion time.
C1_FixedOrderSkipComplete ==
    \A o \in Obj :
        LET sc == StageCalls(o)
        IN  /\ \A i, j \in 1..Len(sc) :
                  i < j => StagePos(sc[i]) < StagePos(sc[j])
            /\ pc[o] = "run_modules:check_call" =>
                  /\ sc # << >>
                  /\ sc[Len(sc)] = StageOrder[idx[o]]
                  /\ RecordRead(o, sc[Len(sc)]).completion_time = None

\* A call that found the first two stages complete in the ledger has skipped
\* them and invoked the other three, in order, and is about to return.
C1_Witness ==
    \E o \in Obj :
        /\ pc[o] = "run_modules:loop"
        /\ idx[o] = Len(StageOrder) + 1
        /\ calls[o] = << "noise_templates", "mean_waveforms", "quality_metrics" >>

\* C3: when the subprocess of a stage exits non-zero, run_modules raises (the
\* call ends), no ledger file is changed, and the record of that stage, as the
\* object reads it, still has no completion time.
C3_FailureLeavesLedger ==
    [][ \A o \in Obj :
          StageExit(o, 1) =>
              /\ pc'[o] = "idle"
              /\ fs_ledger' = fs_ledger
              /\ _modules_input_hash_fp' = _modules_input_hash_fp
              /\ RecordAt(fs_ledger', _modules_input_hash_fp'[o],
                          StageOrder[idx[o]]).completion_time = None
      ]_vars

\* The third stage has failed after the second was recorded: the ledger holds
\* the second stage's completion time and none for the third.
C3_Witness ==
    \E h \in Hashes :
        /\ failed_at[h] = Some(3)
        /\ RecordedComplete(h, "kilosort_postprocessing")
        /\ ~RecordedComplete(h, "noise_templates")

\* C4: within one run_modules call a stage is invoked only after every stage
\* invoked earlier in that call has exited with code zero: once a stage exits
\* non-zero, no later stage is invoked in that call.
C4_NoStageAfterFailure ==
    \A o \in Obj :
        InModules(o) =>
            LET sc == StageCalls(o)
            IN  \A i \in 1..Len(sc) :
                    (i < Len(sc) \/ pc[o] = "run_modules:loop")
                        => sc[i] \in ok_stages[CallHash(o)]

\* A call has raised at its second stage, the first having succeeded, and no
\* call is in progress.
C4_Witness ==
    \E h \in Hashes :
        /\ failed_at[h] = Some(2)
        /\ ok_stages[h] = {"kilosort_helper"}
        /\ Quiet

\* Every stage is recorded complete in the ledger file of hash h, with
\* completion times ascending in the stated order.
FullyRecorded(h) ==
    /\ \A i \in 1..Len(StageOrder) : RecordedComplete(h, StageOrder[i])
    /\ \A i, j \in 1..Len(StageOrder) :
          i < j => Val(fs_ledger[h][StageOrder[i]].completion_time)
                     < Val(fs_ledger[h][StageOrder[j]].completion_time)

\* C2: after a run_modules call has returned with all five stages having
\* succeeded under a configuration (and its ledger file not deleted since), a
\* further run_modules call under that configuration invokes no subprocess,
\* neither CatGT nor a stage.
C2_RerunInvokesNothing ==
    \A o \in Obj :
        (InModules(o) /\ run_phase[CallHash(o)] = "full") => calls[o] = << >>

\* C5: after a run_modules call that raised at stage k, the stages before k
\* having succeeded, the next call under that configuration invokes stage k
\* first and then the following stages in order, and when it has got through
\* all of them every stage is recorded complete in the ledger.
C5_ResumeAtFailedStage ==
    \A o \in Obj :
        (InModules(o) /\ failed_at[CallHash(o)] # None) =>
            LET k == Val(failed_at[CallHash(o)])
                sc == StageCalls(o)
            IN  /\ \A i \in 1..Len(sc) : sc[i] = StageOrder[k + i - 1]
                /\ (pc[o] = "run_modules:loop" /\ idx[o] > Len(StageOrder)) =>
                        \A i \in 1..Len(StageOrder) :
                            RecordedComplete(CallHash(o), StageOrder[i])

\* C6: when the ledger file was deleted after a full successful run and
\* run_modules has then got through all its stages again, all five were invoked
\* again and every stage is recorded complete, with ascending completion times.
C6_RerunAfterDeletionRepopulates ==
    \A o \in Obj :
        ( /\ pc[o] = "run_modules:loop"
          /\ idx[o] > Len(StageOrder)
          /\ run_phase[CallHash(o)] = "deleted" ) =>
            /\ StageCalls(o) = StageOrder
            /\ FullyRecorded(CallHash(o))

\* C7: a stage that run_modules has skipped (passed without invoking it) is
\* recorded complete in the ledger file of the configuration the call runs
\* under, not only in that of another configuration.
C7_NoSharedCompletion ==
    \A o \in Obj :
        InModules(o) =>
            \A i \in 1..(idx[o] - 1) :
                (\A n \in 1..Len(calls[o]) : calls[o][n] # StageOrder[i])
                    => RecordedComplete(CallHash(o), StageOrder[i])

\* C8: on an object constructed with run_CatGT true, a stage subprocess has
\* been invoked only if a CatGT subprocess of that object has exited zero; and
\* when the CatGT subprocess started by run_modules exits non-zero, the call
\* ends having invoked no stage and no ledger file is changed.
C8_CatGTBeforeStages ==
    /\ [](\A o \in Obj :
            (_run_CatGT[o] /\ StageCalls(o) # << >>) => catgt_exit[o].zero)
    /\ [][ \A o \in Obj :
             (pc[o] = "run_modules:run_CatGT" /\ CatGTExit(o, 1)) =>
                 /\ pc'[o] = "idle"
                 /\ StageCalls(o) = << >>
                 /\ fs_ledger' = fs_ledger
         ]_vars

\* run_modules has run CatGT and then started the first stage.
C8_Witness ==
    \E o \in Obj :
        /\ _run_CatGT[o]
        /\ pc[o] = "run_modules:check_call"
        /\ calls[o] = << CatGTHelper, "kilosort_helper" >>

\* C9: on an object on which CatGT has finished, run_CatGT(force_rerun=False)
\* changes nothing and starts no subprocess, and a CatGT subprocess is started
\* again only by run_CatGT(force_rerun=True).
C9_RunCatGTIdempotent ==
    [][ \A o \in Obj :
          /\ (_CatGT_finished[o] /\ RunCatGT(o, FALSE)) =>
                /\ UNCHANGED progvars
                /\ calls'[o] = << >>
          /\ ( /\ _CatGT_finished[o]
               /\ pc[o] = "idle"
               /\ pc'[o] \in {"run_CatGT:check_call", "run_modules:run_CatGT"} ) =>
                last' = Call("run_CatGT(force_rerun)", o, TRUE)
      ]_vars

\* run_CatGT(force_rerun=False) was the last call, made on an object on which
\* CatGT had finished, and it did nothing.
C9_Witness ==
    \E o \in Obj :
        /\ last = Call("run_CatGT", o, FALSE)
        /\ _run_CatGT[o]
        /\ _CatGT_finished[o]
        /\ pc[o] = "idle"

\* C10: on an object constructed with run_CatGT false,
\* generate_CatGT_input_json writes no file, starts no subprocess and leaves
\* the completion flag, the configuration hash and the ledger path unchanged.
C10_GenerateCatGTNoOp ==
    [][ \A o \in Obj :
          (~_run_CatGT[o] /\ GenerateCatGTInputJson(o)) =>
              /\ UNCHANGED << fs_catgt_json, fs_ledger >>
              /\ UNCHANGED << _CatGT_finished, _modules_input_hash,
                              _modules_input_hash_fp >>
              /\ pc'[o] = "idle"
              /\ calls'[o] = << >>
      ]_vars

\* generate_CatGT_input_json was the last call, made on an object constructed
\* with run_CatGT false that has run its modules before, and it did nothing.
C10_Witness ==
    \E o \in Obj :
        /\ last = Call("generate_CatGT_input_json", o, FALSE)
        /\ ~_run_CatGT[o]
        /\ _modules_input_hash_fp[o] # None

\* The names of the stated form <session>_g<gate>_t<trigger|cat>.imec<probe>.ap.meta:
\* one digit of gate, digits or cat as trigger, at most one digit of probe.
FormDigits == { "0", "1", "2" }
FormGates == { << d >> : d \in FormDigits }
FormTriggers ==
    { << d >> : d \in FormDigits } \cup { << d, e >> : d, e \in FormDigits }
        \cup { << "c", "a", "t" >> }
FormProbes == { << >> } \cup { << d >> : d \in FormDigits }
FormSuffix == << ".", "a", "p", ".", "m", "e", "t", "a" >>

FormName(session, gate, trigger, probe) ==
    session \o << "_", "g" >> \o gate \o << "_", "t" >> \o trigger
        \o << ".", "i", "m", "e", "c" >> \o probe \o FormSuffix

IsOfForm(name) ==
    \E s \in SessionStrs, g \in FormGates, t \in FormTriggers, p \in FormProbes :
        name = FormName(s, g, t, p)

\* C11: parse_input_filename returns (session, gate, trigger, probe) cut from
\* the *.ap.meta file name <session>_g<gate>_t<trigger|cat>.imec<probe>.ap.meta:
\* ("run1", "0", "0", "1") for run1_g0_t0.imec1.ap.meta, probe "0" when the
\* probe index is absent; it fails when no *.ap.meta file exists and when the
\* name is not of that form.
C11_ParseInputFilename ==
    parsed # None =>
        LET r == Val(parsed)
            files == { f \in npx_input_dir :
                         Len(f) >= Len(FormSuffix)
                         /\ SubSeq(f, Len(f) - Len(FormSuffix) + 1, Len(f)) = FormSuffix }
        IN  /\ files = {} => r.raised # ""
            /\ files # {} => r.file \in files
            /\ r.file = << "r", "u", "n", "1", "_", "g", "0", "_", "t", "0",
                           ".", "i", "m", "e", "c", "1", ".", "a", "p", ".", "m", "e", "t", "a" >>
                  => /\ r.raised = ""
                     /\ r.value = << << "r", "u", "n", "1" >>, << "0" >>, << "0" >>, << "1" >> >>
            /\ \A s \in SessionStrs, g \in FormGates, t \in FormTriggers, p \in FormProbes :
                  r.file = FormName(s, g, t, p) =>
                      /\ r.raised = ""
                      /\ r.value = << s, g, t, IF p = << >> THEN << "0" >> ELSE p >>
            /\ (files # {} /\ ~IsOfForm(r.file)) => r.raised # ""

\* run1_g0_tcat.imec.ap.meta, a name without probe index, has been parsed.
C11_Witness ==
    /\ parsed # None
    /\ Val(parsed).raised = ""
    /\ Val(parsed).file = FormName(<< "r", "u", "n", "1" >>, << "0" >>, << "c", "a", "t" >>, << >>)
    /\ Val(parsed).value[4] = << "0" >>

\* C12: after _update_module_status(u) has returned, the ledger file of the
\* object's hash holds u's record for every stage u names, whether or not the
\* file existed before; every other stage keeps its record, or is unset when
\* the file is new; and the file has an entry for each of the five stages.
C12_UpdateMerges ==
    [][ \A o \in Obj, u \in Updates :
          (_modules_input_hash[o] # None /\ _update_module_status(o, u)) =>
              LET h == Val(_modules_input_hash[o])
              IN  /\ h \in DOMAIN fs_ledger'
                  /\ DOMAIN fs_ledger'[h] =
                        { "kilosort_helper", "kilosort_postprocessing",
                          "noise_templates", "mean_waveforms", "quality_metrics" }
                  /\ \A m \in DOMAIN fs_ledger'[h] :
                        fs_ledger'[h][m] =
                            IF m \in DOMAIN u THEN u[m]
                            ELSE IF h \in DOMAIN fs_ledger THEN fs_ledger[h][m]
                            ELSE [start_time |-> {}, completion_time |-> {}, duration |-> {}]
      ]_vars

\* C13: a ledger read or update on an object that has no configuration hash
\* yet raises the 'not yet performed' error, creates or changes no ledger file
\* and leaves the object's ledger path unset.
C13_NotYetPerformed ==
    [][ \A o \in Obj :
          _modules_input_hash[o] = None =>
              /\ \A module \in ModuleNames :
                    _get_module_status(o, module) =>
                        /\ last' = Call("_get_module_status", o, FALSE)
                        /\ fs_ledger' = fs_ledger
                        /\ _modules_input_hash_fp'[o] = None
              /\ \A u \in Updates :
                    _update_module_status(o, u) =>
                        /\ last' = Call("_update_module_status", o, FALSE)
                        /\ fs_ledger' = fs_ledger
                        /\ _modules_input_hash_fp'[o] = None
      ]_vars

\* A ledger call has raised on a fresh object while another object's ledger
\* file exists.
C13_Witness ==
    \E o \in Obj :
        /\ last.obj = o
        /\ last.op \in {"_get_module_status", "_update_module_status"}
        /\ ~last.acted
        /\ _modules_input_hash[o] = None
        /\ fs_ledger # << >>

\* C14: run_CatGT sets the completion flag only when the CatGT subprocess
\* exits with code zero: when it exits non-zero the call raises (it ends) and
\* the flag keeps the value it had, and the flag turns true only in the step
\* in which a CatGT subprocess of the object exits with code zero.
C14_FlagOnlyOnSuccess ==
    [][ \A o \in Obj :
          /\ CatGTExit(o, 1) =>
                /\ pc'[o] = "idle"
                /\ _CatGT_finished'[o] = _CatGT_finished[o]
          /\ (~_CatGT_finished[o] /\ _CatGT_finished'[o]) =>
                /\ pc[o] \in {"run_CatGT:check_call", "run_modules:run_CatGT"}
                /\ catgt_exit'[o].latest = {0}
      ]_vars

\* The CatGT subprocess started by run_CatGT has exited non-zero on an object
\* whose flag was false, and the flag is still false.
C14_Witness ==
    \E o \in Obj :
        /\ last.op = "run_CatGT"
        /\ last.obj = o
        /\ last.acted
        /\ pc[o] = "idle"
        /\ catgt_exit[o].latest = {1}
        /\ ~_CatGT_finished[o]

\* C16: under sequential use, in every reachable state the stages recorded
\* complete in a ledger file form a prefix of the fixed stage order: no stage
\* is recorded complete while an earlier stage is recorded not complete.
C16_CompletePrefix ==
    \A h \in DOMAIN fs_ledger :
        \A i, j \in 1..Len(StageOrder) :
            (i < j /\ RecordedComplete(h, StageOrder[j]))
                => RecordedComplete(h, StageOrder[i])

\* C18: every CatGT input configuration that generate_CatGT_input_json has
\* written names the raw recording's files in the input directory as its
\* input data, also when run_CatGT(force_rerun=True) wrote it after CatGT had
\* finished on the object.
C18_CatGTInputIsRaw ==
    fs_catgt_json # None => Val(fs_catgt_json).continuous_file = "npx_input_dir"

\* C19: in every reachable state of an object, if its CatGT completion flag is
\* true then the most recent CatGT subprocess of that object that has exited
\* exited with code zero, also after run_CatGT(force_rerun=True).
C19_FlagMeansLastCatGTSucceeded ==
    \A o \in Obj : _CatGT_finished[o] => catgt_exit[o].latest = {0}

\* The ni_present and ni_extract_string an object is to use: those in its own
\* parameter mapping, else those its constructor was given, the built-in
\* extraction string standing for none given.
OwnNiPresent(o) ==
    IF "ni_present" \in DOMAIN ParamsDict(_params[o])
    THEN ParamsDict(_params[o]).ni_present
    ELSE ni_given[o].ni_present

OwnNiExtractString(o) ==
    IF "ni_extract_string" \in DOMAIN ParamsDict(_params[o])
    THEN ParamsDict(_params[o]).ni_extract_string
    ELSE IF ni_given[o].ni_extract_string = {}
    THEN "-XA=0,1,3,500 -iXA=1,3,3,0  -XD=-1,1,50 -XD=-1,2,1.7 -XD=-1,3,5 -iXD=-1,3,5"
    ELSE Val(ni_given[o].ni_extract_string)

\* C17: the CatGT configuration an object writes is built with the ni_present
\* and ni_extract_string given at that object's own construction (the built-in
\* extraction string when none was given), unless its own parameter mapping
\* overrides them: constructing another object does not change them.
C17_OwnNiArguments ==
    [][ \A o \in Obj :
          ( /\ _run_CatGT[o]
            /\ \/ GenerateCatGTInputJson(o)
               \/ \E force_rerun \in BOOLEAN :
                     RunCatGT(o, force_rerun) /\ pc'[o] # "idle" ) =>
              /\ fs_catgt_json' # {}
              /\ Val(fs_catgt_json').catGT_stream_string =
                    (IF OwnNiPresent(o) THEN "-ap -ni" ELSE "-ap")
              /\ Val(fs_catgt_json').extract_string =
                    (IF OwnNiPresent(o) THEN {OwnNiExtractString(o)} ELSE {})
      ]_vars

\* Stage module has exited with code zero under hash h and the ledger file of
\* h records no completion time for it.
LostUpdate(h, module) ==
    /\ module \in ok_stages[h]
    /\ h \in DOMAIN fs_ledger
    /\ fs_ledger[h][module].completion_time = {}

\* C15: the ledger is not protected against concurrent writers.  When
\* sequencers run run_modules at the same time for one configuration hash,
\* the state C15_Witness is reachable, in which the update of a stage whose
\* subprocess exited zero was lost and a stage ran in two sequencers at once;
\* what every interleaving leaves intact is that a ledger file has an entry
\* for each of the five stages and records a completion time only for a stage
\* whose subprocess exited with code zero under that configuration.
C15_LedgerUnprotected ==
    \A h \in DOMAIN fs_ledger :
        /\ DOMAIN fs_ledger[h] =
              { "kilosort_helper", "kilosort_postprocessing",
                "noise_templates", "mean_waveforms", "quality_metrics" }
        /\ \A m \in DOMAIN fs_ledger[h] :
              fs_ledger[h][m].completion_time # {} => m \in ok_stages[h]

\* Both sequencers have ended; a stage has run in both at the same time under
\* one configuration hash, and a stage whose subprocess exited zero ends with
\* no completion time in the ledger.
C15_Witness ==
    /\ Quiet
    /\ overlap # {}
    /\ \E h \in DOMAIN fs_ledger, m \in ModuleNames : LostUpdate(h, m)

====
